---------------------------- MODULE Spec2Model ----------------------------
(***************************************************************************)
(* TinyXVC front end (src/src/txvc.c): command line handling, profile      *)
(* alias substitution, profile parsing, driver lookup and activation, the  *)
(* SIGINT termination flag, and main()'s sequencing of server loop and     *)
(* driver deactivation.                                                    *)
(*                                                                         *)
(* C strings are sequences of one-character strings.  The scratch buffer   *)
(* `args` is a sequence ending in NUL; pointers into it are 1-based        *)
(* indices, NULL is 0.  Bytes of `args` after its first terminator, which  *)
(* strncpy pads with NUL and the code never reads, are left out.           *)
(***************************************************************************)
EXTENDS Integers, Sequences, FiniteSets, TLC

(* ----------------------------- bounds --------------------------------- *)

\* longest profile string enumerated exhaustively over Chars
MaxLen == 3

\* most ','-separated pieces in the structured profile strings
MaxPieces == 2

\* most SIGINT deliveries in a run
MaxInterrupts == 2

\* most blocking operations one server loop issues before a network error ends it
MaxServerOps == 2

(* ------------------------- program constants -------------------------- *)

\* char args[1024]
ARGS_SIZE == 1024

\* const char *argNames[32], *argValues[32]
ARG_SLOTS == 32

EXIT_SUCCESS == 0

EXIT_FAILURE == 1

\* the flag the comment "No SA_RESTART here" is about
SA_RESTART == 268435456

\* (variant: the handler is installed with SA_RESTART)
sa_flags_restarting == SA_RESTART

\* sa.sa_flags = 0;
sa_flags == 0

\* static volatile sig_atomic_t shouldTerminate = 0;
shouldTerminateInit == 0

(* ------------------------------ strings ------------------------------- *)

NUL == "NUL"

NULL == 0

\* a (char * ) that is NULL, as opts.profile is when -p was not given
NullString == <<NUL, NUL>>

\* the address of the string literal "" stored in argValues[i]
EmptyLiteral == -1

Chars == {"d", "a", ":", "=", ","}

Min(S) == CHOOSE x \in S : \A y \in S : x <= y

\* index of the terminator of the C string starting at p
StrEnd(buf, p) == Min({q \in p..Len(buf) : buf[q] = NUL})

\* strchr(p, c) for c # NUL: pointer to the first c of the string at p, or NULL
StrChr(buf, p, c) ==
    LET hits == {q \in p..(StrEnd(buf, p) - 1) : buf[q] = c}
    IN  IF hits = {} THEN NULL ELSE Min(hits)

\* the C string a pointer denotes
CStr(buf, p) ==
    IF p = EmptyLiteral THEN <<>> ELSE SubSeq(buf, p, StrEnd(buf, p) - 1)

\* strcmp(a, b) == 0
StrEq(a, b) == a = b

\* strncpy(args, profile, sizeof(args)); args[sizeof(args) - 1] = '\0';
CopyToArgs(profile) ==
    (IF Len(profile) >= ARGS_SIZE THEN SubSeq(profile, 1, ARGS_SIZE - 1) ELSE profile)
        \o <<NUL>>

(* ------------------- read-only tables of the process ------------------ *)

\* the driver registry txvc_enumerate_drivers walks, in registry order
\* (its last entry repeats the first one's name, to tell the first match from
\* a later one)
Registry ==
    << [name |-> <<"d">>, help |-> "help d"],
       [name |-> <<"a", "d">>, help |-> "help ad"],
       [name |-> <<"d">>, help |-> "help d, registered again"] >>

Drivers == 1..Len(Registry)

\* txvc_enumerate_drivers(fn, extra): the first descriptor for which the callback
\* returns false, or NULL.  driver_usage returns true for every descriptor so that
\* all of them are printed, hence true means "go on".  `fn` is given as the
\* callback's result for each descriptor.
txvc_enumerate_drivers(fn) ==
    LET stop == {k \in Drivers : ~fn[k]}
    IN  IF stop = {} THEN NULL ELSE Min(stop)

\* static bool driver_usage(d, extra): prints, returns true
driver_usage(drv, extra) == TRUE

\* (variant: the callback's result is the other way round)
find_by_name_inverted(drv, extra) == StrEq(extra, drv.name)

\* static bool find_by_name(d, extra)
find_by_name(drv, extra) == ~StrEq(extra, drv.name)

\* txvc_profile_aliases: tables the process may be built with (sentinel left out):
\* one alias; a chain in table order; the same chain in reverse order; an alias
\* of itself; two aliases of each other
AliasTables ==
    { << [alias |-> <<"a">>, profile |-> <<"d", ":", "a", "=", "d">>, description |-> "board a"] >>,
      << [alias |-> <<"a">>, profile |-> <<"a", "a">>, description |-> "a to aa"],
         [alias |-> <<"a", "a">>, profile |-> <<"d">>, description |-> "aa to d"] >>,
      << [alias |-> <<"a", "a">>, profile |-> <<"d">>, description |-> "aa to d"],
         [alias |-> <<"a">>, profile |-> <<"a", "a">>, description |-> "a to aa"] >>,
      << [alias |-> <<"a">>, profile |-> <<"a">>, description |-> "a to a"] >>,
      << [alias |-> <<"a">>, profile |-> <<"a", "a">>, description |-> "a to aa"],
         [alias |-> <<"a", "a">>, profile |-> <<"a">>, description |-> "aa to a"] >> }

(* ------------------------------ inputs -------------------------------- *)

RECURSIVE StringsOfLen(_)
StringsOfLen(n) ==
    IF n = 0 THEN {<<>>}
    ELSE {Append(s, c) : s \in StringsOfLen(n - 1), c \in Chars}

ShortStrings == UNION {StringsOfLen(n) : n \in 0..MaxLen}

PieceForms == {<<>>, <<"a">>, <<"a", "=", "d">>, <<"=", "a", "=">>}

RECURSIVE PieceLists(_)
PieceLists(n) ==
    IF n = 0 THEN {<<>>}
    ELSE PieceLists(n - 1) \cup
         {Append(l, f) : l \in {m \in PieceLists(n - 1) : Len(m) = n - 1}, f \in PieceForms}

RECURSIVE Join(_, _)
Join(pieces, sep) ==
    IF pieces = <<>> THEN <<>>
    ELSE IF Len(pieces) = 1 THEN pieces[1]
    ELSE pieces[1] \o <<sep>> \o Join(Tail(pieces), sep)

StructuredStrings ==
    {<<"d", ":">> \o Join(l, ",") : l \in PieceLists(MaxPieces)}

\* a driver name that fills the scratch buffer, and argument lists at and
\* beyond the capacity of the argument arrays
LongName == [k \in 1..ARGS_SIZE |-> "d"]

ManyPairs(n) == <<"d", ":">> \o Join([k \in 1..n |-> <<"a", "=", "d">>], ",")

\* more pairs than the arrays hold, after a name that fills the scratch buffer
LongNameManyPairs == LongName \o Tail(ManyPairs(ARG_SLOTS + 1))

LongStrings ==
    {LongName, ManyPairs(ARG_SLOTS), ManyPairs(ARG_SLOTS + 1), LongNameManyPairs}

\* a driver's name in another letter case
OtherCaseStrings == {<<"D">>, <<"D", ":", "a">>}

ProfileInputs ==
    ShortStrings \cup StructuredStrings \cup LongStrings \cup OtherCaseStrings

\* what getopt makes of the command line: whether every option is known and no
\* operand is left over, whether -h was given, and the argument of -p (if any)
ArgvInputs ==
    { [parseOk |-> FALSE, help |-> FALSE, profile |-> NullString],
      [parseOk |-> TRUE, help |-> TRUE, profile |-> NullString],
      [parseOk |-> TRUE, help |-> TRUE, profile |-> <<"d">>],
      [parseOk |-> TRUE, help |-> FALSE, profile |-> NullString] }
    \cup {[parseOk |-> TRUE, help |-> FALSE, profile |-> p] : p \in ProfileInputs}

(* ------------------------------- state -------------------------------- *)

VARIABLES
    argv,            \* the command line (input)
    aliasTable,      \* txvc_profile_aliases
    pc,              \* control point of the main thread
    opts,            \* struct cli_options opts
    exitStatus,      \* status main returned, NotExited before that
    shouldTerminate, \* static volatile sig_atomic_t shouldTerminate
    sigDisposition,  \* disposition of SIGINT: "default" or "handler"
    hpc,             \* control point of sigint_handler
    interrupts,      \* SIGINT deliveries so far
    stdout,          \* what was written to standard output, in order
    log,             \* what was reported through fprintf(stderr)/INFO/WARN/ERROR
    profile,         \* activate_driver: const char *profile
    alias,           \* activate_driver: position of the alias loop
    args,            \* activate_driver: char args[1024]
    cur,             \* activate_driver: char *cur
    i,               \* activate_driver: size_t i
    argNames,        \* activate_driver: const char *argNames[32]
    argValues,       \* activate_driver: const char *argValues[32]
    d,               \* const struct txvc_driver *d (registry index, NULL if none)
    lifecycle,       \* per driver: Idle, Activating, Activated, Deactivating, Failed
    activateCalls,   \* per driver: calls of d->activate
    deactivateCalls, \* per driver: calls of d->deactivate
    activateArgs,    \* the (name, value) strings d->activate was handed
    serverCalls,     \* calls of txvc_run_server
    serverDriver,    \* the driver txvc_run_server was called with
    spc,             \* control point inside txvc_run_server
    serverOps,       \* blocking operations the server loop has issued
    opsAfterFlag,    \* of these, the ones issued while shouldTerminate was set
    eintr            \* the blocking operation in progress was interrupted

vars ==
    << argv, aliasTable, pc, opts, exitStatus, shouldTerminate, sigDisposition, hpc,
       interrupts, stdout, log, profile, alias, args, cur, i, argNames, argValues, d,
       lifecycle, activateCalls, deactivateCalls, activateArgs, serverCalls,
       serverDriver, spc, serverOps, opsAfterFlag, eintr >>

mainVars ==
    << pc, opts, exitStatus, profile, alias, args, cur, i, argNames, argValues, d,
       lifecycle, activateCalls, deactivateCalls, activateArgs, serverCalls,
       serverDriver, spc, serverOps >>

parseVars == << profile, alias, args, cur, i, argNames, argValues >>

driverVars ==
    << d, lifecycle, activateCalls, deactivateCalls, activateArgs >>

serverVars == << serverCalls, serverDriver, spc, serverOps, opsAfterFlag, eintr >>

signalVars == << shouldTerminate, sigDisposition, hpc, interrupts >>

NotExited == -1

ArgSlots == 0..(ARG_SLOTS - 1)

DEFAULT_SERVER_ADDR == "127.0.0.1:2542"

Init ==
    /\ argv \in ArgvInputs
    /\ aliasTable \in AliasTables
    /\ pc = "main"
    /\ opts = [serverAddr |-> "NULL", profile |-> NullString, verbose |-> FALSE, help |-> FALSE]
    /\ exitStatus = NotExited
    /\ shouldTerminate = shouldTerminateInit
    /\ sigDisposition = "default"
    /\ hpc = "idle"
    /\ interrupts = 0
    /\ stdout = <<>>
    /\ log = <<>>
    /\ profile = NullString
    /\ alias = 0
    /\ args = <<NUL>>
    /\ cur = NULL
    /\ i = 0
    /\ argNames = [k \in ArgSlots |-> NULL]
    /\ argValues = [k \in ArgSlots |-> NULL]
    /\ d = NULL
    /\ lifecycle = [k \in Drivers |-> "Idle"]
    /\ activateCalls = [k \in Drivers |-> 0]
    /\ deactivateCalls = [k \in Drivers |-> 0]
    /\ activateArgs = <<>>
    /\ serverCalls = 0
    /\ serverDriver = NULL
    /\ spc = "out"
    /\ serverOps = 0
    /\ opsAfterFlag = 0
    /\ eintr = FALSE

\* the main thread runs only while no signal handler is executing on its stack
MainRuns(at) == pc = at /\ hpc = "idle"

(* --------------------------- main: options ---------------------------- *)

\* main: parse_cli_options fails -> printUsage(argv[0], false); return EXIT_FAILURE
\* otherwise the options given are stored in opts
ParseCliOptions ==
    /\ MainRuns("main")
    /\ IF argv.parseOk
       THEN /\ opts' = [opts EXCEPT !.profile = argv.profile, !.help = argv.help]
            /\ pc' = "options"
            /\ UNCHANGED << exitStatus, stdout >>
       ELSE /\ stdout' = Append(stdout, "usage")
            /\ exitStatus' = EXIT_FAILURE
            /\ pc' = "exited"
            /\ UNCHANGED opts
    /\ UNCHANGED << argv, aliasTable, log, parseVars, driverVars, serverVars, signalVars >>

\* main: -h -> detailed usage, EXIT_SUCCESS; no profile -> EXIT_FAILURE;
\* default server address
CheckOptions ==
    /\ MainRuns("options")
    /\ IF opts.help
       THEN /\ stdout' = Append(stdout, "detailed usage")
            /\ exitStatus' = EXIT_SUCCESS
            /\ pc' = "exited"
            /\ UNCHANGED << opts, log >>
       ELSE IF opts.profile = NullString
       THEN /\ log' = Append(log, <<"stderr", "Profile is missing", <<>>>>)
            /\ exitStatus' = EXIT_FAILURE
            /\ pc' = "exited"
            /\ UNCHANGED << opts, stdout >>
       ELSE /\ opts' = [opts EXCEPT !.serverAddr =
                            IF @ = "NULL" THEN DEFAULT_SERVER_ADDR ELSE @]
            /\ pc' = "listen"
            /\ UNCHANGED << exitStatus, stdout, log >>
    /\ UNCHANGED << argv, aliasTable, parseVars, driverVars, serverVars, signalVars >>

(* ------------------------------ SIGINT -------------------------------- *)

\* (variant: main goes on to activate_driver without installing the handler)
listen_not_installing ==
    /\ MainRuns("listen")
    /\ profile' = opts.profile
    /\ alias' = 1
    /\ pc' = "alias"
    /\ UNCHANGED << argv, aliasTable, opts, exitStatus, signalVars, stdout, log, args, cur,
                    i, argNames, argValues, driverVars, serverVars >>

\* listen_for_user_interrupt: sigaction(SIGINT, &sa, NULL) with sa_flags and
\* sa_handler = sigint_handler; main then calls activate_driver(opts.profile)
listen_for_user_interrupt ==
    /\ MainRuns("listen")
    /\ sigDisposition' = "handler"
    /\ profile' = opts.profile
    /\ alias' = 1
    /\ pc' = "alias"
    /\ UNCHANGED << argv, aliasTable, opts, exitStatus, shouldTerminate, hpc, interrupts,
                    stdout, log, args, cur, i, argNames, argValues, driverVars,
                    serverVars >>

Running == pc \notin {"exited", "killed"}

\* a SIGINT arrives.  With the default disposition it ends the process; with the
\* handler installed, sigint_handler starts on the main thread's stack (further
\* SIGINTs are held back while it runs, as sa_mask/SA_NODEFER leave them).
SigintDelivered ==
    /\ Running
    /\ hpc = "idle"
    /\ interrupts < MaxInterrupts
    /\ interrupts' = interrupts + 1
    /\ IF sigDisposition = "default"
       THEN pc' = "killed" /\ hpc' = hpc
       ELSE pc' = pc /\ hpc' = "write"
    /\ UNCHANGED << argv, aliasTable, opts, exitStatus, shouldTerminate, sigDisposition,
                    stdout, log, parseVars, driverVars, serverVars >>

\* (variant: the handler writes its message only while the flag is not set)
HandlerWriteOnce ==
    /\ hpc = "write"
    /\ stdout' = IF shouldTerminate = 0 THEN Append(stdout, "Terminating...\n") ELSE stdout
    /\ hpc' = "set"
    /\ UNCHANGED << argv, aliasTable, mainVars, shouldTerminate, sigDisposition,
                    interrupts, log, opsAfterFlag, eintr >>

\* sigint_handler: write(STDOUT_FILENO, "Terminating...\n", 15);
HandlerWrite ==
    /\ hpc = "write"
    /\ stdout' = Append(stdout, "Terminating...\n")
    /\ hpc' = "set"
    /\ UNCHANGED << argv, aliasTable, mainVars, shouldTerminate, sigDisposition,
                    interrupts, log, opsAfterFlag, eintr >>

\* what becomes of a blocking operation of the server loop that a handled signal
\* interrupted: restarted by the kernel under SA_RESTART, else it returns EINTR
Restarts(flags) == flags = SA_RESTART

\* (variant: the handler flips the flag)
FlagToggled(old) == 1 - old

\* the value sigint_handler stores: shouldTerminate = 1;
FlagWritten(old) == 1

\* (variant: the handler also ends the process, as exit() in a handler would)
HandlerSetFlagAndExit ==
    /\ hpc = "set"
    /\ shouldTerminate' = 1
    /\ hpc' = "idle"
    /\ pc' = "exited"
    /\ exitStatus' = EXIT_SUCCESS
    /\ UNCHANGED << argv, aliasTable, opts, profile, alias, args, cur, i, argNames,
                    argValues, d, lifecycle, activateCalls, deactivateCalls, activateArgs,
                    serverCalls, serverDriver, spc, serverOps, opsAfterFlag, eintr,
                    sigDisposition, interrupts, stdout, log >>

\* sigint_handler: shouldTerminate = 1; and the handler returns
HandlerSetFlag ==
    /\ hpc = "set"
    /\ shouldTerminate' = FlagWritten(shouldTerminate)
    /\ hpc' = "idle"
    /\ IF spc = "blocked"
       THEN IF Restarts(sa_flags)
            THEN opsAfterFlag' = opsAfterFlag + 1 /\ eintr' = eintr
            ELSE eintr' = TRUE /\ opsAfterFlag' = opsAfterFlag
       ELSE UNCHANGED << opsAfterFlag, eintr >>
    /\ UNCHANGED << argv, aliasTable, mainVars, sigDisposition, interrupts, stdout, log >>

(* -------------------- activate_driver: alias loop ---------------------- *)

\* (variant: the loop ends at the first match)
AliasNextBreaking(matched, k, n) == IF matched THEN n + 1 ELSE k + 1

\* (variant: the table is scanned again from its start after each match)
AliasNextRescanning(matched, k, n) == IF matched THEN 1 ELSE k + 1

\* for (...; alias->alias; alias++): the entry looked at after entry k of n,
\* whether or not entry k matched
AliasNext(matched, k, n) == k + 1

\* the whole alias loop from entry k on, as a function of the working string
RECURSIVE AliasLoop(_, _, _)
AliasLoop(s, table, k) ==
    IF k > Len(table) THEN s
    ELSE LET matched == StrEq(s, table[k].alias)
         IN  AliasLoop(IF matched THEN table[k].profile ELSE s, table,
                       AliasNext(matched, k, Len(table)))

\* one iteration of the loop over txvc_profile_aliases
AliasStep ==
    /\ MainRuns("alias")
    /\ alias <= Len(aliasTable)
    /\ IF StrEq(profile, aliasTable[alias].alias)
       THEN /\ log' = log \o << <<"INFO", "Found alias", aliasTable[alias].description>>,
                               <<"INFO", "using profile", aliasTable[alias].profile>> >>
            /\ profile' = aliasTable[alias].profile
       ELSE UNCHANGED << log, profile >>
    /\ alias' = AliasNext(StrEq(profile, aliasTable[alias].alias), alias, Len(aliasTable))
    /\ UNCHANGED << argv, aliasTable, pc, opts, exitStatus, stdout, args, cur, i, argNames,
                    argValues, driverVars, serverVars, signalVars >>

\* const char *name = args;
name == 1

\* (variant: the name is cut at the first '=')
FindColonWrongChar(buf) == StrChr(buf, name, "=")

\* char* cur = strchr(args, ':');
FindColon(buf) == StrChr(buf, name, ":")

\* the sentinel ends the alias loop; the profile is copied into args, the arrays
\* are zeroed and the first ':' is looked for
CopyProfile ==
    /\ MainRuns("alias")
    /\ alias > Len(aliasTable)
    /\ args' = CopyToArgs(profile)
    /\ argNames' = [k \in ArgSlots |-> NULL]
    /\ argValues' = [k \in ArgSlots |-> NULL]
    /\ cur' = FindColon(args')
    /\ pc' = "colon"
    /\ UNCHANGED << argv, aliasTable, opts, exitStatus, stdout, log, profile, alias, i,
                    driverVars, serverVars, signalVars >>

(* --------------------- activate_driver: parsing ----------------------- *)

\* if (cur) { *cur++ = '\0'; for (size_t i = 0; ...
CutName ==
    /\ MainRuns("colon")
    /\ IF cur # NULL
       THEN /\ args' = [args EXCEPT ![cur] = NUL]
            /\ cur' = cur + 1
            /\ i' = 0
            /\ pc' = "pairs"
       ELSE /\ pc' = "lookup"
            /\ UNCHANGED << args, cur, i >>
    /\ UNCHANGED << argv, aliasTable, opts, exitStatus, stdout, log, profile, alias,
                    argNames, argValues, driverVars, serverVars, signalVars >>

\* (variant: the bound of the loop is off by one)
PairLoopConditionOffByOne == i <= ARG_SLOTS /\ cur # NULL /\ args[cur] # NUL

\* i < sizeof(argNames) / sizeof(argNames[0]) && cur && *cur
PairLoopCondition == i < ARG_SLOTS /\ cur # NULL /\ args[cur] # NUL

\* cur = strchr(cur, ',');
FindComma(buf, p) == StrChr(buf, p, ",")

\* (variant: the pair is split at its last '=')
FindLastEquals(buf, p) ==
    LET hits == {q \in p..(StrEnd(buf, p) - 1) : buf[q] = "="}
    IN  IF hits = {} THEN NULL ELSE CHOOSE x \in hits : \A y \in hits : y <= x

\* tmp = strchr(tmp, '=');
FindEquals(buf, p) == StrChr(buf, p, "=")

\* argValues[i] when the pair has no '='
ValueWithoutEquals == EmptyLiteral

\* the body of the pair loop, and i++
ParsePair ==
    /\ MainRuns("pairs")
    /\ PairLoopCondition
    /\ LET tmp   == cur
           comma == FindComma(args, cur)
           args1 == IF comma # NULL THEN [args EXCEPT ![comma] = NUL] ELSE args
           eq    == FindEquals(args1, tmp)
       IN  /\ cur' = IF comma # NULL THEN comma + 1 ELSE NULL
           /\ argNames' = [argNames EXCEPT ![i] = tmp]
           /\ IF eq # NULL
              THEN /\ args' = [args1 EXCEPT ![eq] = NUL]
                   /\ argValues' = [argValues EXCEPT ![i] = eq + 1]
              ELSE /\ args' = args1
                   /\ argValues' = [argValues EXCEPT ![i] = ValueWithoutEquals]
    /\ i' = i + 1
    /\ UNCHANGED << argv, aliasTable, pc, opts, exitStatus, stdout, log, profile, alias,
                    driverVars, serverVars, signalVars >>

\* the loop condition fails
PairsDone ==
    /\ MainRuns("pairs")
    /\ ~PairLoopCondition
    /\ pc' = "lookup"
    /\ UNCHANGED << argv, aliasTable, opts, exitStatus, stdout, log, parseVars,
                    driverVars, serverVars, signalVars >>

(* --------------- activate_driver: lookup and activation --------------- *)

\* the filled slots of the two arrays, as the strings they point to
SlotStrings(buf, names, values) ==
    LET filled == {k \in ArgSlots : \A j \in 0..k : names[j] # NULL}
    IN  [k \in 1..Cardinality(filled) |->
            << CStr(buf, names[k - 1]),
               IF values[k - 1] = NULL THEN <<NUL>> ELSE CStr(buf, values[k - 1]) >>]

\* neither array has a NULL slot left to end it
Unterminated == \A k \in ArgSlots : argNames[k] # NULL

\* const struct txvc_driver *d = txvc_enumerate_drivers(find_by_name, name);
\* and the else branch: ERROR("Can not find driver ...")
LookupDriver ==
    /\ MainRuns("lookup")
    /\ d' = txvc_enumerate_drivers([k \in Drivers |-> find_by_name(Registry[k], CStr(args, name))])
    /\ IF d' # NULL
       THEN pc' = "activate" /\ log' = log
       ELSE /\ log' = Append(log, <<"ERROR", "Can not find driver", CStr(args, name)>>)
            /\ pc' = "returned"
    /\ UNCHANGED << argv, aliasTable, opts, exitStatus, stdout, parseVars, lifecycle,
                    activateCalls, deactivateCalls, activateArgs, serverVars, signalVars >>

\* d->activate(argNames, argValues) is entered
ActivateCall ==
    /\ MainRuns("activate")
    /\ activateCalls' = [activateCalls EXCEPT ![d] = @ + 1]
    /\ lifecycle' = [lifecycle EXCEPT ![d] = "Activating"]
    /\ activateArgs' = SlotStrings(args, argNames, argValues)
    /\ pc' = "in_activate"
    /\ UNCHANGED << argv, aliasTable, opts, exitStatus, stdout, log, parseVars, d,
                    deactivateCalls, serverVars, signalVars >>

\* (variant: a failed activation is tried again)
ActivateReturnRetrying ==
    /\ MainRuns("in_activate")
    /\ \/ /\ lifecycle' = [lifecycle EXCEPT ![d] = "Activated"]
          /\ pc' = "returned"
          /\ log' = log
       \/ /\ lifecycle' = [lifecycle EXCEPT ![d] = "Failed"]
          /\ log' = Append(log, <<"ERROR", "Failed to activate driver", CStr(args, name)>>)
          /\ pc' = IF activateCalls[d] < 2 THEN "activate" ELSE "returned"
    /\ UNCHANGED << argv, aliasTable, opts, exitStatus, stdout, parseVars, d, activateCalls,
                    deactivateCalls, activateArgs, serverVars, signalVars >>

\* d->activate returns; on failure ERROR("Failed to activate driver") and d = NULL.
\* A driver that walks arrays nothing terminates reads past them: it may as well
\* end the process.
ActivateReturn ==
    /\ MainRuns("in_activate")
    /\ \/ /\ lifecycle' = [lifecycle EXCEPT ![d] = "Activated"]
          /\ pc' = "returned"
          /\ UNCHANGED << d, log >>
       \/ /\ lifecycle' = [lifecycle EXCEPT ![d] = "Failed"]
          /\ log' = Append(log, <<"ERROR", "Failed to activate driver", CStr(args, name)>>)
          /\ d' = NULL
          /\ pc' = "returned"
       \/ /\ Unterminated
          /\ pc' = "killed"
          /\ UNCHANGED << d, log, lifecycle >>
    /\ UNCHANGED << argv, aliasTable, opts, exitStatus, stdout, parseVars, activateCalls,
                    deactivateCalls, activateArgs, serverVars, signalVars >>

(* ------------------ main: server loop and deactivation ---------------- *)

\* (variant: main does not test d)
MainBranchUnchecked(drv) == "run_server"

\* (variant: main deactivates the driver without running the server)
MainBranchNoServer(drv) == IF drv # NULL THEN "deactivate" ELSE "main_return"

\* main: if (d) { txvc_run_server(...); d->deactivate() ... } return 0;
MainBranch(drv) == IF drv # NULL THEN "run_server" ELSE "main_return"

\* main receives activate_driver's result and tests it
MainCheckDriver ==
    /\ MainRuns("returned")
    /\ pc' = MainBranch(d)
    /\ UNCHANGED << argv, aliasTable, opts, exitStatus, stdout, log, parseVars, driverVars,
                    serverVars, signalVars >>

\* txvc_run_server(opts.serverAddr, d, &shouldTerminate) is entered.  The loop may
\* test the flag before its first blocking operation or only after it.
RunServer ==
    /\ MainRuns("run_server")
    /\ serverCalls' = serverCalls + 1
    /\ serverDriver' = d
    /\ spc' \in {"check", "issue"}
    /\ pc' = "in_server"
    /\ UNCHANGED << argv, aliasTable, opts, exitStatus, stdout, log, parseVars, driverVars,
                    serverOps, opsAfterFlag, eintr, signalVars >>

\* the value of the flag the server loop reads through the pointer it was given
ServerSeesFlag == shouldTerminate # 0

\* the loop tests the flag: set -> return to main; else go on to the next
\* blocking operation (the network fails for good once MaxServerOps were issued)
ServerCheck ==
    /\ MainRuns("in_server")
    /\ spc = "check"
    /\ IF ServerSeesFlag \/ serverOps >= MaxServerOps
       THEN spc' = "out" /\ pc' = "deactivate"
       ELSE spc' = "issue" /\ pc' = pc
    /\ UNCHANGED << argv, aliasTable, opts, exitStatus, stdout, log, parseVars, driverVars,
                    serverCalls, serverDriver, serverOps, opsAfterFlag, eintr, signalVars >>

\* the loop enters a blocking operation (accept, read, ...)
ServerIssue ==
    /\ MainRuns("in_server")
    /\ spc = "issue"
    /\ serverOps' = serverOps + 1
    /\ opsAfterFlag' = IF shouldTerminate # 0 THEN opsAfterFlag + 1 ELSE opsAfterFlag
    /\ eintr' = FALSE
    /\ spc' = "blocked"
    /\ UNCHANGED << argv, aliasTable, pc, opts, exitStatus, stdout, log, parseVars,
                    driverVars, serverCalls, serverDriver, signalVars >>

\* the blocking operation returns: with data or a recoverable error or EINTR (the
\* loop goes on to test the flag), or with an unrecoverable error (the loop ends)
ServerBlockReturn ==
    /\ MainRuns("in_server")
    /\ spc = "blocked"
    /\ \/ spc' = "check" /\ pc' = pc
       \/ ~eintr /\ spc' = "out" /\ pc' = "deactivate"
    /\ eintr' = FALSE
    /\ UNCHANGED << argv, aliasTable, opts, exitStatus, stdout, log, parseVars, driverVars,
                    serverCalls, serverDriver, serverOps, opsAfterFlag, signalVars >>

\* d->deactivate() is entered
DeactivateCall ==
    /\ MainRuns("deactivate")
    /\ deactivateCalls' = [deactivateCalls EXCEPT ![d] = @ + 1]
    /\ lifecycle' = [lifecycle EXCEPT ![d] = "Deactivating"]
    /\ pc' = "in_deactivate"
    /\ UNCHANGED << argv, aliasTable, opts, exitStatus, stdout, log, parseVars, d,
                    activateCalls, activateArgs, serverVars, signalVars >>

\* (variant: a failed deactivation makes main return EXIT_FAILURE)
DeactivateReturnFatal ==
    /\ MainRuns("in_deactivate")
    /\ \/ log' = log /\ pc' = "main_return" /\ exitStatus' = exitStatus
       \/ /\ log' = Append(log, <<"WARN", "Failed to deactivate driver", Registry[d].name>>)
          /\ pc' = "exited"
          /\ exitStatus' = EXIT_FAILURE
    /\ lifecycle' = [lifecycle EXCEPT ![d] = "Idle"]
    /\ UNCHANGED << argv, aliasTable, opts, stdout, parseVars, d, activateCalls,
                    deactivateCalls, activateArgs, serverVars, signalVars >>

\* d->deactivate() returns; false -> WARN("Failed to deactivate driver")
DeactivateReturn ==
    /\ MainRuns("in_deactivate")
    /\ \E ok \in BOOLEAN :
          log' = IF ok THEN log
                 ELSE Append(log, <<"WARN", "Failed to deactivate driver", Registry[d].name>>)
    /\ lifecycle' = [lifecycle EXCEPT ![d] = "Idle"]
    /\ pc' = "main_return"
    /\ UNCHANGED << argv, aliasTable, opts, exitStatus, stdout, parseVars, d, activateCalls,
                    deactivateCalls, activateArgs, serverVars, signalVars >>

\* main: return 0;
MainReturn ==
    /\ MainRuns("main_return")
    /\ exitStatus' = 0
    /\ pc' = "exited"
    /\ UNCHANGED << argv, aliasTable, opts, stdout, log, parseVars, driverVars, serverVars,
                    signalVars >>

(* --------------------------- specification ---------------------------- *)

Main ==
    \/ ParseCliOptions
    \/ CheckOptions
    \/ listen_for_user_interrupt
    \/ AliasStep
    \/ CopyProfile
    \/ CutName
    \/ ParsePair
    \/ PairsDone
    \/ LookupDriver
    \/ ActivateCall
    \/ ActivateReturn
    \/ MainCheckDriver
    \/ RunServer
    \/ ServerCheck
    \/ ServerIssue
    \/ ServerBlockReturn
    \/ DeactivateCall
    \/ DeactivateReturn
    \/ MainReturn

Handler == HandlerWrite \/ HandlerSetFlag

Next == Main \/ SigintDelivered \/ Handler

Spec == Init /\ [][Next]_vars

\* runs on a few command lines: the three that end before activate_driver, and
\* profiles that are an alias, a driver with two pairs, and no driver at all
FewArgvInputs ==
    { a \in ArgvInputs :
         a.profile \in { NullString, <<"a">>, <<"d">>, <<"d", "d">>,
                         <<"d", ":", "a", "=", "d", ",", "a">> } }

\* the kernel runs the one thread of the process whenever it can run, a handler
\* that started finishes, and every blocking operation returns in the end (its
\* timeout at the latest)
LiveInit == Init /\ argv \in FewArgvInputs

LiveSpec ==
    /\ LiveInit
    /\ [][Next]_vars
    /\ WF_vars(Main)
    /\ WF_vars(Handler)

(* ------------------------ observations of a run ----------------------- *)

Range(f) == {f[k] : k \in DOMAIN f}

Reported(msg) == \E k \in 1..Len(log) : log[k][2] = msg

\* the registry lookup found no descriptor / d->activate returned false
LookupFailed == Reported("Can not find driver")

ActivationFailed == Reported("Failed to activate driver")

DeactivationFailed == Reported("Failed to deactivate driver")

RECURSIVE SumOver(_, _)
SumOver(f, S) ==
    IF S = {} THEN 0
    ELSE LET k == CHOOSE x \in S : TRUE IN f[k] + SumOver(f, S \ {k})

TotalActivateCalls == SumOver(activateCalls, Drivers)

TotalDeactivateCalls == SumOver(deactivateCalls, Drivers)

(* ------------------------------ claims -------------------------------- *)

\* C1: in every run d->activate is invoked at most once over all drivers, and
\* when the registry lookup found no descriptor it is not invoked at all.
C1_ActivateAtMostOnce ==
    /\ TotalActivateCalls <= 1
    /\ LookupFailed => TotalActivateCalls = 0

\* a run whose one activation failed has ended without a second attempt
C1_Witness ==
    /\ pc = "exited"
    /\ ActivationFailed
    /\ TotalActivateCalls = 1

\* C2: txvc_run_server is invoked only with a driver whose activate returned
\* success; when the driver was not found or its activate returned failure, the
\* server loop is never invoked and no deactivate is called, up to and including
\* the exit of the process.
C2_ServerOnlyAfterSuccess ==
    /\ serverCalls > 0 =>
          /\ serverDriver \in Drivers
          /\ activateCalls[serverDriver] = 1
          /\ lifecycle[serverDriver] \in {"Activated", "Deactivating", "Idle"}
          /\ ~ActivationFailed
          /\ ~LookupFailed
    /\ pc \in {"run_server", "in_server"} => d # NULL /\ lifecycle[d] = "Activated"
    /\ (LookupFailed \/ ActivationFailed) =>
          /\ serverCalls = 0
          /\ TotalDeactivateCalls = 0
          /\ pc \in {"returned", "main_return", "exited"}

\* a run whose activation failed has exited, the server never invoked
C2_Witness ==
    /\ pc = "exited"
    /\ ActivationFailed
    /\ serverCalls = 0
    /\ TotalDeactivateCalls = 0

\* C3 (as claimed): when the resolved profile names no registered driver, the
\* process exits with a non-zero status.
C3_NotFoundExitsNonZero ==
    (pc = "exited" /\ LookupFailed) => exitStatus # 0

LifecycleSteps ==
    { <<"Idle", "Activating">>, <<"Activating", "Activated">>, <<"Activating", "Failed">>,
      <<"Activated", "Deactivating">>, <<"Deactivating", "Idle">> }

C4_Invariant ==
    /\ TotalDeactivateCalls <= 1
    /\ \A k \in Drivers :
          deactivateCalls[k] > 0 =>
             /\ k = serverDriver
             /\ activateCalls[k] = 1
             /\ ~ActivationFailed
             /\ serverCalls = 1
             /\ spc = "out"
             /\ pc \in {"in_deactivate", "main_return", "exited"}
    /\ Cardinality({k \in Drivers : lifecycle[k] = "Activated"}) <= 1

\* C4: each driver's lifecycle moves only along Idle -> Activating -> Activated ->
\* Deactivating -> Idle (or Activating -> Failed); deactivate is called at most
\* once per run, only on the driver whose activate returned success and only
\* after the server loop has returned; at most one driver is Activated at a time.
C4_Lifecycle ==
    /\ []C4_Invariant
    /\ [][\A k \in Drivers :
             lifecycle'[k] # lifecycle[k] => <<lifecycle[k], lifecycle'[k]>> \in LifecycleSteps]_vars

\* a driver went through the whole cycle and is Idle again
C4_Witness ==
    /\ pc = "exited"
    /\ \E k \in Drivers :
          /\ activateCalls[k] = 1
          /\ deactivateCalls[k] = 1
          /\ lifecycle[k] = "Idle"
    /\ serverCalls = 1

\* C5: for a run that reached the server loop the exit status is 0, whether
\* deactivate returned success or failure.
C5_DeactivateFailureKeepsStatus ==
    (pc = "exited" /\ serverCalls > 0) => exitStatus = EXIT_SUCCESS

\* a run whose deactivate returned failure has exited with status 0
C5_Witness ==
    /\ pc = "exited"
    /\ DeactivationFailed
    /\ exitStatus = EXIT_SUCCESS

\* C6: the termination flag starts at 0; only the store in sigint_handler changes
\* it, never a step of the main thread; once it is 1 it is 1 in every later
\* state, however many interrupts follow.
C6_FlagMonotone ==
    /\ shouldTerminate = 0
    /\ [][/\ shouldTerminate' # shouldTerminate => (hpc = "set" /\ hpc' = "idle" /\ pc' = pc)
          /\ shouldTerminate = 1 => shouldTerminate' = 1]_vars

\* a second interrupt has been handled and the flag is still set
C6_Witness ==
    /\ shouldTerminate = 1
    /\ interrupts = 2
    /\ hpc = "idle"
    /\ Len(stdout) = 2

InServer == pc \in {"run_server", "in_server"}

\* C7: with the handler installed without SA_RESTART and a server loop that
\* tests the flag after every blocking operation: once the flag is set (before
\* the loop is invoked or while it runs) the loop issues at most one further
\* blocking operation, and it returns to main.
C7_ServerObservesFlag ==
    /\ [](opsAfterFlag <= 1)
    /\ ((shouldTerminate = 1 /\ InServer) ~> ~InServer)

\* the flag was set before the loop's blocking operation was issued; the loop
\* has returned to main after that one operation
C7_Witness ==
    /\ pc = "deactivate"
    /\ shouldTerminate = 1
    /\ serverOps = 1
    /\ opsAfterFlag = 1

TerminatingMessage == "Terminating...\n"

\* C8: a step of sigint_handler (its start, its write, its store), wherever the
\* main thread stands, appends at most the fixed message to standard output and
\* sets the flag; it leaves the main thread's control point, the working profile
\* string, the scratch buffer, the parsed arguments, the driver lifecycle and
\* every other variable of the main thread unchanged.  No step of the main
\* thread writes the flag.
C8_HandlerFrame ==
    [][/\ (hpc # "idle" \/ hpc' # "idle") =>
             /\ UNCHANGED mainVars
             /\ UNCHANGED << log, sigDisposition, argv, aliasTable >>
             /\ stdout' \in {stdout, Append(stdout, TerminatingMessage)}
             /\ shouldTerminate' \in {shouldTerminate, 1}
       /\ (hpc = "idle" /\ hpc' = "idle") => shouldTerminate' = shouldTerminate]_vars

\* the handler runs in the middle of the pair loop of the parser
C8_Witness ==
    /\ hpc = "set"
    /\ pc = "pairs"
    /\ i = 1
    /\ PairLoopCondition
    /\ stdout = <<TerminatingMessage>>

(* --------------------- the parser, as specified ----------------------- *)

\* the parser has finished; args and the two arrays are what activate is handed
Parsed == pc \in {"lookup", "activate", "in_activate"}

ParsedName == CStr(args, name)

ParsedPairs == SlotStrings(args, argNames, argValues)

FirstIndex(s, c) == Min({k \in 1..Len(s) : s[k] = c})

Before(s, c) == SubSeq(s, 1, FirstIndex(s, c) - 1)

After(s, c) == SubSeq(s, FirstIndex(s, c) + 1, Len(s))

\* the pieces of s between its separators c: one more piece than separators
RECURSIVE Pieces(_, _)
Pieces(s, c) ==
    IF c \notin Range(s) THEN <<s>>
    ELSE <<Before(s, c)>> \o Pieces(After(s, c), c)

PairOf(piece) ==
    IF "=" \in Range(piece) THEN <<Before(piece, "="), After(piece, "=")>>
    ELSE <<piece, <<>> >>

PairsOf(pieces) == [k \in 1..Len(pieces) |-> PairOf(pieces[k])]

\* the ','-separated pieces of the text after the ':' (none when it is empty)
PiecesOfText(text) == IF text = <<>> THEN <<>> ELSE Pieces(text, ",")

\* the pieces without an empty last piece
WithoutEmptyLast(pieces) ==
    IF pieces # <<>> /\ pieces[Len(pieces)] = <<>>
    THEN SubSeq(pieces, 1, Len(pieces) - 1)
    ELSE pieces

NoParseFailure ==
    /\ exitStatus = NotExited
    /\ \A k \in 1..Len(log) : log[k][1] = "INFO"

\* C9 (as claimed): for every profile string without ':' the parsed driver name
\* is the whole string and no argument pair is handed to activate.
C9_NoColon_AnyLength ==
    (Parsed /\ ":" \notin Range(profile)) =>
        /\ ParsedName = profile
        /\ ParsedPairs = <<>>

\* C9 (amended): for every profile string without ':' that fits the scratch
\* buffer (fewer than ARGS_SIZE characters) the parsed driver name is the whole
\* string, no argument pair is handed to activate, and parsing goes on to the
\* lookup without reporting a failure.
C9_NoColon ==
    (Parsed /\ ":" \notin Range(profile) /\ Len(profile) < ARGS_SIZE) =>
        /\ ParsedName = profile
        /\ ParsedPairs = <<>>
        /\ argNames[0] = NULL /\ argValues[0] = NULL
        /\ pc = "lookup" => NoParseFailure
        /\ pc = "in_activate" => activateArgs = <<>>

\* activate was entered with no argument for a profile that had no ':'
C9_Witness ==
    /\ pc = "in_activate"
    /\ ":" \notin Range(profile)
    /\ profile # <<>>
    /\ ParsedName = profile
    /\ activateArgs = <<>>

\* C10 (as claimed): for every profile string with a ':' that fits the scratch
\* buffer and has at most 32 pieces, the driver name is the text before the first
\* ':' and the pairs are exactly the ','-separated pieces of the text after it,
\* in order, each split at its first '=' (value "" without '=').
C10_PairsAreAllPieces ==
    (/\ Parsed
     /\ ":" \in Range(profile)
     /\ Len(profile) < ARGS_SIZE
     /\ Len(PiecesOfText(After(profile, ":"))) <= ARG_SLOTS) =>
        /\ ParsedName = Before(profile, ":")
        /\ ParsedPairs = PairsOf(PiecesOfText(After(profile, ":")))

\* C10 (amended): as claimed, except that a ',' at the very end of the text is
\* not followed by a further, empty, pair; parsing goes on to the lookup without
\* reporting a failure.
C10_Pairs ==
    (/\ Parsed
     /\ ":" \in Range(profile)
     /\ Len(profile) < ARGS_SIZE
     /\ Len(WithoutEmptyLast(PiecesOfText(After(profile, ":")))) <= ARG_SLOTS) =>
        /\ ParsedName = Before(profile, ":")
        /\ ParsedPairs = PairsOf(WithoutEmptyLast(PiecesOfText(After(profile, ":"))))
        /\ pc = "lookup" => NoParseFailure
        /\ pc = "in_activate" => activateArgs = ParsedPairs

\* activate was entered with a pair that has a value and a pair that has none
C10_Witness ==
    /\ pc = "in_activate"
    /\ profile = <<"d", ":", "a", "=", "d", ",", "a">>
    /\ activateArgs = << << <<"a">>, <<"d">> >>, << <<"a">>, <<>> >> >>

\* the pairs the text after the first ':' of the profile spells out
SpelledPairs == PairsOf(WithoutEmptyLast(PiecesOfText(After(profile, ":"))))

\* C11 (as claimed): for every profile string with more than 32 pairs, parsing
\* collects exactly the first 32 pairs, in order, and goes on to the lookup.
C11_First32_AnyLength ==
    (Parsed /\ ":" \in Range(profile) /\ Len(SpelledPairs) > ARG_SLOTS) =>
        ParsedPairs = SubSeq(SpelledPairs, 1, ARG_SLOTS)

\* C11 (amended): for every profile string that fits the scratch buffer and has
\* more than 32 pairs, parsing collects exactly the first 32 pairs, in order,
\* and drops the rest without a report; the slot index never passes 32, so no
\* slot beyond index 31 is written; the run goes on to the lookup and hands
\* activate those 32 pairs.
C11_First32 ==
    /\ i <= ARG_SLOTS
    /\ (/\ Parsed
        /\ ":" \in Range(profile)
        /\ Len(profile) < ARGS_SIZE
        /\ Len(SpelledPairs) > ARG_SLOTS) =>
           /\ ParsedPairs = SubSeq(SpelledPairs, 1, ARG_SLOTS)
           /\ i = ARG_SLOTS
           /\ pc = "lookup" => NoParseFailure
           /\ pc = "in_activate" => activateArgs = SubSeq(SpelledPairs, 1, ARG_SLOTS)

\* activate was entered with 32 pairs for a profile that spells out 33
C11_Witness ==
    /\ pc = "in_activate"
    /\ profile = ManyPairs(ARG_SLOTS + 1)
    /\ Len(activateArgs) = ARG_SLOTS
    /\ ~Reported("Can not find driver")

(* ----------------- alias substitution, as specified ------------------- *)

\* the working string after entries 1..n of the table were checked in table
\* order, each match replacing the whole string by that entry's profile
RECURSIVE SubstitutedThrough(_, _, _)
SubstitutedThrough(s, table, n) ==
    IF n = 0 THEN s
    ELSE LET before == SubstitutedThrough(s, table, n - 1)
         IN  IF before = table[n].alias THEN table[n].profile ELSE before

\* the alias loop is over and activate_driver still runs
AfterAliasLoop == pc \in {"colon", "pairs", "lookup", "activate", "in_activate"}

\* C12: the alias loop checks the working string against every table entry in
\* table order by whole-string equality, each match replacing the whole string by
\* the entry's profile and later entries being compared with the new string; the
\* parser is handed the result of this one pass.  An input that equals no alias
\* is parsed unchanged; an input that equals an alias, whose profile no later
\* entry takes further, is parsed as that alias's profile.
C12_OnePassInTableOrder ==
    /\ pc = "alias" =>
          /\ alias \in 1..(Len(aliasTable) + 1)
          /\ profile = SubstitutedThrough(argv.profile, aliasTable, alias - 1)
    /\ AfterAliasLoop =>
          /\ profile = SubstitutedThrough(argv.profile, aliasTable, Len(aliasTable))
          /\ (\A k \in 1..Len(aliasTable) : aliasTable[k].alias # argv.profile) =>
                profile = argv.profile
          /\ \A k \in 1..Len(aliasTable) :
                (/\ aliasTable[k].alias = argv.profile
                 /\ \A j \in 1..(k - 1) : aliasTable[j].alias # argv.profile
                 /\ \A j \in (k + 1)..Len(aliasTable) :
                       aliasTable[j].alias # aliasTable[k].profile) =>
                   profile = aliasTable[k].profile
    /\ pc = "colon" => args = CopyToArgs(profile)

\* alias "a" was replaced by "aa" and that, by the next entry, by "d", which
\* is what the parser was handed
C12_Witness ==
    /\ pc = "colon"
    /\ argv.profile = <<"a">>
    /\ Len(aliasTable) = 2
    /\ profile = <<"d">>
    /\ args = <<"d", NUL>>

\* C13 (as claimed): for every alias table and every profile string, running
\* the alias loop on the string it returned yields that string again.
C13_Idempotent_AnyTable ==
    AfterAliasLoop => AliasLoop(profile, aliasTable, 1) = profile

\* no entry's profile is the alias of an entry before it
ChainsFollowTableOrder(table) ==
    \A k \in 1..Len(table) : \A j \in 1..(k - 1) : table[k].profile # table[j].alias

\* C13 (amended): for every alias table in which no entry's profile is the alias
\* of an earlier entry, and every profile string, running the alias loop on the
\* string it returned yields that string again.
C13_Idempotent ==
    (AfterAliasLoop /\ ChainsFollowTableOrder(aliasTable)) =>
        /\ profile = AliasLoop(argv.profile, aliasTable, 1)
        /\ AliasLoop(profile, aliasTable, 1) = profile

\* a chain in table order was resolved to its end, which the loop leaves alone
C13_Witness ==
    /\ pc = "lookup"
    /\ ChainsFollowTableOrder(aliasTable)
    /\ Len(aliasTable) = 2
    /\ argv.profile = <<"a">>
    /\ profile = <<"d">>
    /\ AliasLoop(profile, aliasTable, 1) = profile

\* an entry is its own alias, or two entries are aliases of each other
Cyclic(table) ==
    \E k \in 1..Len(table) : \E j \in 1..Len(table) :
        table[k].profile = table[j].alias /\ table[j].profile = table[k].alias

InputIsAlias == \E k \in 1..Len(aliasTable) : aliasTable[k].alias = argv.profile

\* substitutions made so far
FoundCount == Cardinality({k \in 1..Len(log) : log[k][2] = "Found alias"})

\* C14 (as claimed): with a self-referential or mutually-referential alias in
\* the table, a run whose input matches an alias never gets past the alias loop.
C14_LoopsForever ==
    (Cyclic(aliasTable) /\ InputIsAlias) => ~AfterAliasLoop

\* C14 (amended): the alias loop has no cycle detection and needs none: it is one
\* pass in which the position only moves forward, so that never more
\* substitutions were made than entries were passed, and at most one per entry
\* of the table in all, also with self-referential or mutually-referential
\* aliases; the loop then ends and the parser gets the string.
C14_OnePassEnds ==
    /\ FoundCount <= Len(aliasTable)
    /\ pc = "alias" =>
          /\ alias <= Len(aliasTable) + 1
          /\ FoundCount <= alias - 1
    /\ AfterAliasLoop => alias = Len(aliasTable) + 1

\* the input matched an alias of itself, was replaced once, and the parser has it
C14_Witness ==
    /\ pc = "colon"
    /\ Len(aliasTable) = 1
    /\ aliasTable[1].profile = aliasTable[1].alias
    /\ argv.profile = aliasTable[1].alias
    /\ FoundCount = 1
    /\ args = CopyToArgs(aliasTable[1].alias)

(* ---------------------- driver lookup, as specified ------------------- *)

\* the descriptors whose name is the parsed driver name, character for character
NameMatches == {k \in Drivers : Registry[k].name = ParsedName}

\* C15: the driver whose activate is invoked is the first descriptor in registry
\* order whose name equals the parsed driver name as a whole string; a descriptor
\* with another name is never activated, nor is a later one of the same name;
\* "Can not find driver" is reported exactly when no descriptor has that name.
C15_FirstExactMatch ==
    /\ pc \in {"activate", "in_activate"} =>
          /\ NameMatches # {}
          /\ d = Min(NameMatches)
          /\ ~LookupFailed
    /\ \A k \in Drivers :
          activateCalls[k] > 0 =>
             /\ Registry[k].name = ParsedName
             /\ \A j \in 1..(k - 1) : Registry[j].name # ParsedName
    /\ LookupFailed => NameMatches = {}
    /\ pc = "returned" => (LookupFailed <=> NameMatches = {})
    /\ (pc = "returned" /\ profile \in OtherCaseStrings) => LookupFailed

\* of the two descriptors named "d" the first is being activated for the profile
\* "d:a", the descriptor "ad" and the later "d" are not
C15_Witness ==
    /\ pc = "in_activate"
    /\ profile = <<"d", ":", "a">>
    /\ ParsedName = <<"d">>
    /\ d = 1
    /\ activateCalls = [k \in Drivers |-> IF k = 1 THEN 1 ELSE 0]
    /\ Cardinality(NameMatches) = 2

(* --------------------------- interrupts again ------------------------- *)

\* every SIGINT so far was taken by sigint_handler, which has returned
Handled(n) == sigDisposition = "handler" /\ hpc = "idle" /\ interrupts = n

\* C16 (as claimed): after two SIGINT deliveries the termination flag and the
\* standard output written by the handler are what they are after one delivery:
\* the flag set, the message written once.
C16_SecondInterruptNoEffect ==
    Handled(2) => (shouldTerminate = 1 /\ stdout = <<TerminatingMessage>>)

C16_Invariant ==
    \A n \in 1..MaxInterrupts :
        Handled(n) =>
           /\ shouldTerminate = 1
           /\ stdout = [k \in 1..n |-> TerminatingMessage]

\* C16 (amended): a second interrupt changes neither the termination flag, which
\* stays set, nor the driver lifecycle state; its one additional effect is that
\* the handler writes its message again: after n handled deliveries standard
\* output holds the message n times.
C16_SecondInterruptWritesAgain ==
    /\ []C16_Invariant
    /\ [][(hpc # "idle" /\ shouldTerminate = 1) =>
             (shouldTerminate' = 1 /\ UNCHANGED << lifecycle, pc >>)]_vars

\* two deliveries were handled while the driver was Activated
C16_Witness ==
    /\ Handled(2)
    /\ shouldTerminate = 1
    /\ stdout = <<TerminatingMessage, TerminatingMessage>>
    /\ \E k \in Drivers : lifecycle[k] = "Activated"

\* C17 (as claimed): the two arrays handed to activate are ended by a NULL slot
\* within their 32 entries, and argValues[j] is set exactly when argNames[j] is.
C17_ArraysTerminated ==
    pc \in {"activate", "in_activate"} =>
        /\ \E k \in ArgSlots : argNames[k] = NULL
        /\ \A j \in ArgSlots : (argValues[j] # NULL) <=> (argNames[j] # NULL)

C18_Invariant ==
    /\ pc \in {"exited", "killed"} => \A k \in Drivers : lifecycle[k] # "Activated"
    /\ (pc = "exited" /\ serverCalls > 0) => deactivateCalls[serverDriver] = 1
    /\ (\E k \in Drivers : lifecycle[k] \in {"Activating", "Activated"}) =>
          sigDisposition = "handler"

\* C18: the handler is installed before activation starts, so no interrupt ends
\* the process while a driver is Activated; a driver whose activate returned
\* success is in the end deactivated, before the process exits, also when the
\* flag was set before the server loop was entered.
C18_ActivatedIsDeactivated ==
    /\ []C18_Invariant
    /\ \A k \in Drivers : (lifecycle[k] = "Activated") ~> (deactivateCalls[k] = 1)

\* the server loop was entered with the flag already set and has not yet
\* issued a blocking operation
C18_Witness ==
    /\ pc = "in_server"
    /\ spc \in {"check", "issue"}
    /\ serverOps = 0
    /\ shouldTerminate = 1
    /\ d # NULL
    /\ lifecycle[d] = "Activated"

=============================================================================
